---------------------------- MODULE Spec2Model ----------------------------
(***************************************************************************)
(* A model of the blocker EBS volume driver (src/ebs_driver.go) as it is   *)
(* driven by the HTTP adapter of src/service.go: every request runs the    *)
(* driver method on a goroutine of its own, so the driver's methods        *)
(* interleave at every provider call, OS command and sleep.                *)
(*                                                                         *)
(* The provider (EC2) and the host (device nodes, the mount table, the     *)
(* directories under /mnt/blocker) are the environment.  Strings are       *)
(* sequences of one-character strings, except the two literal prefixes.    *)
(***************************************************************************)
EXTENDS Integers, Sequences, FiniteSets, TLC

(* ------------------------------ bounds -------------------------------- *)

\* Number of driver calls the adapter dispatches in one behaviour when it
\* serves one request at a time.
MaxOps == 3

\* Number of driver calls the adapter dispatches in one behaviour when it
\* serves two requests at a time.
MaxParOps == 2

(* ------------------------- program constants -------------------------- *)

\* range "fghijklmnop" of the slot scan.
SlotLetters == <<"f", "g", "h", "i", "j", "k", "l", "m", "n", "o", "p">>

NSlots == 11

Slots == 1..NSlots

\* if tries == 12 { return err }
MaxTries == 12

\* "/mnt/blocker/" of doMount, doUnmount and Path.
MountRoot == <<"/mnt/blocker/">>

\* The two device naming schemes: "/dev/sd" + c and "/dev/xvd" + c.
Aliases == {"sd", "xvd"}

DevPath(alias, c) == <<"/dev/", alias, "d", SlotLetters[c]>>

Nil == <<>>

(* ------------------------------ inputs -------------------------------- *)

Procs == {1, 2}

Names == {<<"a">>, <<"b">>}

\* The sub-paths a request may carry after the volume name.
Folders == {<<>>, <<"/", "s">>}

Paths == {n \o f : n \in Names, f \in Folders}

\* The paths of the requests: with sub-paths when the adapter serves one
\* request at a time, bare names when it serves two.
Requests(n) == IF n = 1 THEN Paths ELSE Names

\* The directories inside a volume's filesystem: volume a was populated by
\* an earlier container, volume b is created (and formatted) in the run.
VolDirs(n) == IF n = <<"a">> THEN {<<"/", "s">>} ELSE {}

\* The device nodes of volumes this driver does not manage, per host.
\* Two foreign devices, on f and g, one under each scheme.
TwoForeign ==
  [c \in Slots |-> IF c = 1 THEN {"sd"} ELSE IF c = 2 THEN {"xvd"} ELSE {}]

\* Foreign devices on every slot but the last.
OneSlotLeft == [c \in Slots |-> IF c < NSlots THEN {"xvd"} ELSE {}]

HostConfigs == {TwoForeign, OneSlotLeft}

(* ------------------------------- state -------------------------------- *)

VARIABLES
  vol,      \* provider: per name, the volume carrying that Name tag
  extSlots, \* provider: device slots of this instance used by other volumes
  devNode,  \* host: per slot, the aliases that exist under /dev
  mntDir,   \* host: per name, whether /mnt/blocker/<name> exists
  mounted,  \* host: per name, the slot whose device is mounted there (0: none)
  pc,       \* per goroutine, its position in the driver
  op,       \* per goroutine, the call it serves
  lc,       \* per goroutine, the locals of the functions on its stack
  gh,       \* per goroutine, what the current call has done so far (history)
  ret,      \* per goroutine, what its last call returned
  okMounts, \* (path, mountpoint) of the Mount calls that returned no error,
            \* less those of a volume an Unmount/Remove began on since (history)
  okUnmounts, \* names an Unmount/Remove returned no error for, less those a
            \* Mount began on since (history)
  nops,     \* calls dispatched so far
  par       \* the number of requests the adapter serves at a time

vars == <<vol, extSlots, devNode, mntDir, mounted, pc, op, lc, gh, ret,
          okMounts, okUnmounts, nops, par>>

\* state: *volume.State; att: the state of the one attachment ("none": no
\* attachment); dev: the device name the attachment was asked for, as
\* (alias, slot).
NoVolume ==
  [exists |-> FALSE, tagged |-> FALSE, state |-> "none", att |-> "none",
   dev |-> <<>>]

FreshVolume ==
  [exists |-> TRUE, tagged |-> FALSE, state |-> "creating", att |-> "none",
   dev |-> <<>>]

AvailableVolume ==
  [exists |-> TRUE, tagged |-> TRUE, state |-> "available", att |-> "none",
   dev |-> <<>>]

\* c: the scan's slot; dev: the device attachVolume returned (alias, slot);
\* tries, evals, sleeps, cond: waitUntilState's counter, the evaluations of
\* its condition and the sleeps it made, and its condition; dctx:
\* detachVolume's caller; perr: the error the caller of a compensating
\* detach is about to return.
NoLocals ==
  [c |-> 0, dev |-> Nil, tries |-> 0, evals |-> 0, sleeps |-> 0,
   cond |-> "none", dctx |-> "none", perr |-> Nil]

\* calls: the provider calls and OS commands issued; skipped, rejected: the
\* slots the current attachVolume found occupied locally, or the provider
\* refused; accepted: the slot of the attach request the provider accepted;
\* short: doMount found a live mount point; det: the outcome of the last
\* detachVolume; wres: what the last waitUntilState returned; wgap: at that
\* return, its attempts less its evaluations and its attempts less its sleeps;
\* remount: the call is a Mount of a name whose Unmount returned no error.
NoHistory ==
  [calls |-> {}, skipped |-> {}, rejected |-> {}, accepted |-> 0,
   short |-> FALSE, det |-> "none", wres |-> Nil, wgap |-> <<0, 0>>,
   remount |-> FALSE]

NoOp == [kind |-> "none", path |-> Nil, name |-> Nil, folder |-> Nil]

NoRet == [val |-> Nil, err |-> Nil]

(* --------------------------- pure functions --------------------------- *)

\* strings.Index(path, "/"): the first index of "/" (from 0), or -1.
RECURSIVE IndexFrom(_, _)
IndexFrom(path, i) ==
  IF i > Len(path) THEN -1
  ELSE IF path[i] = "/" THEN i - 1
  ELSE IndexFrom(path, i + 1)

parsePath(path) ==
  LET sep == IndexFrom(path, 1) IN
    IF sep < 0 THEN <<path, <<>>>>
    ELSE <<SubSeq(path, 1, sep), SubSeq(path, sep + 1, Len(path))>>

\* "/mnt/blocker/" + name
MountDir(name) == MountRoot \o name

(* ----------------------- the host, as the code sees it ---------------- *)

\* os.Lstat(path) of a device path succeeds.
LstatOk(alias, c) == alias \in devNode[c]

\* The managed volume the provider has on slot c of this instance, if any.
VolumesAt(c) ==
  {n \in Names : vol[n].att # "none" /\ vol[n].dev # <<>> /\ vol[n].dev[2] = c}

\* mountpoint -q <dir> succeeds.
IsMountpoint(name) == mounted[name] # 0

\* os.Stat(dir + folder) succeeds and is a directory: the directory itself,
\* or a directory of the filesystem mounted on it.
StatIsDir(name, folder) ==
  /\ name \in Names
  /\ mntDir[name]
  /\ \/ folder = <<>>
     \/ /\ mounted[name] # 0
        /\ \E n \in VolumesAt(mounted[name]) : folder \in VolDirs(n)

(* ------------------- the provider, as the code sees it ---------------- *)

\* A provider that refuses only the device names of volumes the driver does
\* not manage.
ProviderInUse_ForeignOnly(c) == c \in extSlots

\* A device name the provider holds in use on this instance.
ProviderInUse(c) == c \in extSlots \/ VolumesAt(c) # {}

\* len(volume.Attachments)
NumAttachments(v) == IF v.att = "none" THEN 0 ELSE 1


\* errors, as the message's parts
NotFoundErr == <<"Volume not found">>

ApiErr(call) == <<"provider error", call>>

DeviceExhausted == <<"No devices available for attach: /dev/sd[f-p] taken.">>

UnmountFailed == <<"Unmounting failed">>

FormatFailed == <<"Formatting device failed">>

MountFailed == <<"Mounting device failed">>

DeviceMissing == <<"Device is missing after attach.">>

IsLookupErr(e) == e = NotFoundErr \/ e = ApiErr("DescribeVolumes")

\* getEBSVolume(name): the volume tagged name, or the lookup's error; apiOk
\* is whether the DescribeVolumes call itself succeeded.
getEBSVolumeErr(name, apiOk) ==
  IF ~apiOk THEN ApiErr("DescribeVolumes")
  ELSE IF ~(vol[name].exists /\ vol[name].tagged) THEN NotFoundErr
  ELSE Nil

\* The check functions of waitUntilAttached, waitUntilDettached and
\* waitUntilAvailable: Nil when satisfied, else the failure's message.
CheckAttached(v) ==
  IF NumAttachments(v) = 1 /\ v.att = "attached" THEN Nil
  ELSE IF NumAttachments(v) # 1
    THEN <<"expected 1 attachment, got", IF NumAttachments(v) = 0 THEN "0" ELSE "1">>
    ELSE <<"seeking", "attached", "current is", v.att>>

CheckDettached(v) ==
  IF NumAttachments(v) = 0 THEN Nil ELSE <<"still has attachments">>

CheckAvailable(v) ==
  IF v.state = "available" THEN Nil
  ELSE <<"seeking", "available", "current is", v.state>>

Check(cond, v) ==
  CASE cond = "attached" -> CheckAttached(v)
    [] cond = "detached" -> CheckDettached(v)
    [] cond = "available" -> CheckAvailable(v)

(* ------------------------- control transfer --------------------------- *)

Goto(p, newpc, newlc, newgh) ==
  /\ pc' = [pc EXCEPT ![p] = newpc]
  /\ lc' = [lc EXCEPT ![p] = newlc]
  /\ gh' = [gh EXCEPT ![p] = newgh]
  /\ UNCHANGED <<ret, okMounts, okUnmounts>>

\* The driver method returns (val, err) to the adapter.
Return(p, val, err, newgh) ==
  /\ pc' = [pc EXCEPT ![p] = "done"]
  /\ lc' = [lc EXCEPT ![p] = NoLocals]
  /\ gh' = [gh EXCEPT ![p] = newgh]
  /\ ret' = [ret EXCEPT ![p] = [val |-> val, err |-> err]]
  /\ okMounts' = IF op[p].kind = "Mount" /\ err = Nil
                 THEN okMounts \cup {<<op[p].path, val>>} ELSE okMounts
  /\ okUnmounts' = IF op[p].kind \in {"Unmount", "Remove"} /\ err = Nil
                   THEN okUnmounts \cup {op[p].name} ELSE okUnmounts

\* A Mount that forgets the sub-path.
MountReturn_NoFolder(p, mnt, newgh) == Return(p, mnt, Nil, newgh)

\* Mount: doMount returned (mnt, nil); Mount returns mnt + folder.
MountReturn(p, mnt, newgh) == Return(p, mnt \o op[p].folder, Nil, newgh)

\* attachVolume returns (dev, err) to Create or to doMount.
AfterAttach(p, dev, err, newgh) ==
  IF err # Nil THEN Return(p, Nil, err, newgh)
  ELSE Goto(p, IF op[p].kind = "Create" THEN "c_mkfs" ELSE "m_mount",
            [NoLocals EXCEPT !.dev = dev], newgh)

\* Callers that all ignore what detachVolume returns.
AfterDetach_Ignored(p, err, g0) ==
  LET g == [g0 EXCEPT !.det = IF err = Nil THEN "ok" ELSE "failed"] IN
  IF lc[p].dctx = "missing" THEN AfterAttach(p, Nil, lc[p].perr, g)
  ELSE Return(p, Nil, lc[p].perr, g)

\* Callers that all return what detachVolume returns, when it is an error.
AfterDetach_Propagated(p, err, g0) ==
  LET g == [g0 EXCEPT !.det = IF err = Nil THEN "ok" ELSE "failed"]
      e == IF err # Nil THEN err ELSE lc[p].perr
  IN IF lc[p].dctx = "missing" THEN AfterAttach(p, Nil, e, g)
     ELSE Return(p, Nil, e, g)

\* detachVolume returns err to its caller.
AfterDetach(p, err, g0) ==
  LET g == [g0 EXCEPT !.det = IF err = Nil THEN "ok" ELSE "failed"] IN
  CASE lc[p].dctx = "create_failed" -> Return(p, Nil, lc[p].perr, g)
    [] lc[p].dctx = "create" -> Return(p, Nil, Nil, g)
    [] lc[p].dctx = "mount_failed" -> Return(p, Nil, lc[p].perr, g)
    [] lc[p].dctx = "unmount" -> Return(p, Nil, err, g)
    [] lc[p].dctx = "missing" -> AfterAttach(p, Nil, lc[p].perr, g)

\* detachVolume(name) is entered.
CallDetach(p, dctx, perr, newgh) ==
  Goto(p, "d_lookup", [NoLocals EXCEPT !.dctx = dctx, !.perr = perr], newgh)

\* waitUntilState(name, check) is entered.
CallWait(p, cond, newgh) ==
  Goto(p, "w_poll",
       [NoLocals EXCEPT !.cond = cond, !.c = lc[p].c, !.dctx = lc[p].dctx,
                        !.perr = lc[p].perr],
       newgh)

\* An attach that detaches when its wait for the attachment fails.
AfterWait_Compensating(p, err, newgh) ==
  CASE lc[p].cond = "available" ->
         IF err # Nil THEN AfterAttach(p, Nil, err, newgh)
         ELSE Goto(p, "a_scan", [NoLocals EXCEPT !.c = 1], newgh)
    [] lc[p].cond = "attached" ->
         IF err # Nil THEN CallDetach(p, "missing", err, newgh)
         ELSE Goto(p, "a_post", [NoLocals EXCEPT !.c = lc[p].c], newgh)
    [] lc[p].cond = "detached" -> AfterDetach(p, err, newgh)

\* waitUntilState returns err to waitUntilAvailable, waitUntilAttached or
\* waitUntilDettached, and so to attachVolume or detachVolume.
AfterWait(p, err, newgh) ==
  CASE lc[p].cond = "available" ->
         IF err # Nil THEN AfterAttach(p, Nil, err, newgh)
         ELSE Goto(p, "a_scan", [NoLocals EXCEPT !.c = 1], newgh)
    [] lc[p].cond = "attached" ->
         IF err # Nil THEN AfterAttach(p, Nil, err, newgh)
         ELSE Goto(p, "a_post", [NoLocals EXCEPT !.c = lc[p].c], newgh)
    [] lc[p].cond = "detached" -> AfterDetach(p, err, newgh)

Called(p, call) == [gh[p] EXCEPT !.calls = @ \cup {call}]

Busy(p) == pc[p] \notin {"idle", "done"}

\* No call has returned whose response the adapter has yet to write.
Quiet == \A p \in Procs : pc[p] # "done"

(* ----------------------------- the calls ------------------------------ *)

\* The adapter dispatches a call to goroutine p.
\* The adapter serves at most par requests at a time, MaxOps or MaxParOps in
\* all, each on the first goroutine that is free.
CanDispatch(p) ==
  /\ Quiet
  /\ ~Busy(p)
  /\ p <= par
  /\ \A q \in Procs : q < p => Busy(q)
  /\ nops < (IF par = 1 THEN MaxOps ELSE MaxParOps)

Dispatch(p, kind, path, first) ==
  /\ CanDispatch(p)
  /\ nops' = nops + 1
  /\ LET parsed == IF kind = "Create" THEN <<path, <<>>>> ELSE parsePath(path) IN
       /\ op' = [op EXCEPT ![p] = [kind |-> kind, path |-> path,
                                   name |-> parsed[1], folder |-> parsed[2]]]
       /\ okMounts' = IF kind \in {"Unmount", "Remove"}
                      THEN {m \in okMounts : parsePath(m[1])[1] # parsed[1]}
                      ELSE okMounts
       /\ okUnmounts' = IF kind = "Mount" THEN okUnmounts \ {parsed[1]}
                        ELSE okUnmounts
       /\ gh' = [gh EXCEPT ![p] =
                   [NoHistory EXCEPT
                      !.remount = (kind = "Mount" /\ parsed[1] \in okUnmounts)]]
  /\ pc' = [pc EXCEPT ![p] = first]
  /\ lc' = [lc EXCEPT ![p] = NoLocals]
  /\ ret' = [ret EXCEPT ![p] = NoRet]
  /\ UNCHANGED <<vol, extSlots, devNode, mntDir, mounted, par>>

\* Create(name, options) is called.  Names are unique tags: Create is called
\* for a name no volume carries and no other Create is creating.
Create(p, name) ==
  /\ ~vol[name].exists
  /\ \A q \in Procs : ~(Busy(q) /\ op[q].kind = "Create" /\ op[q].name = name)
  /\ Dispatch(p, "Create", name, "c_create")

Mount(p, path) == Dispatch(p, "Mount", path, "m_mkdir")

Unmount(p, path) == Dispatch(p, "Unmount", path, "u_umount")

Remove(p, path) == Dispatch(p, "Remove", path, "u_umount")

NotMounted == <<"Volume not mounted.">>

\* Path(path): one os.Stat.
Path(p, path) ==
  /\ CanDispatch(p)
  /\ nops' = nops + 1
  /\ LET parsed == parsePath(path)
         mnt == MountRoot \o parsed[1] \o parsed[2] IN
       /\ op' = [op EXCEPT ![p] = [kind |-> "Path", path |-> path,
                                   name |-> parsed[1], folder |-> parsed[2]]]
       /\ ret' = [ret EXCEPT ![p] =
                    IF StatIsDir(parsed[1], parsed[2])
                    THEN [val |-> mnt, err |-> Nil]
                    ELSE [val |-> Nil, err |-> NotMounted]]
       /\ gh' = [gh EXCEPT ![p] = NoHistory]
  /\ pc' = [pc EXCEPT ![p] = "done"]
  /\ lc' = [lc EXCEPT ![p] = NoLocals]
  /\ UNCHANGED <<vol, extSlots, devNode, mntDir, mounted, okMounts, okUnmounts,
                 par>>

\* *ebs_volume.VolumeId: the provider's identifier of the volume tagged name.
VolumeId(name) == <<"vol-">> \o name

\* The property map Get and List build for the volume tagged name, as its
\* (key, value) pairs: Mountpoint is set, to the empty path Path returned,
\* when Path returned an error.
Properties(name) ==
  {<<"Name", name>>, <<"AwsVolumeId", VolumeId(name)>>}
    \cup (IF ~StatIsDir(name, <<>>) THEN {<<"Mountpoint", Nil>>} ELSE {})

\* The sequences DescribeVolumes can return for the volumes that carry the
\* tag key Name: every order of them.
Listings ==
  LET tagged == {n \in Names : vol[n].exists /\ vol[n].tagged}
  IN {s \in [1 .. Cardinality(tagged) -> tagged] :
        \A i, j \in DOMAIN s : s[i] = s[j] => i = j}

\* A call that changes nothing returns ret.
ReadOnly(p, kind, name, r) ==
  /\ CanDispatch(p)
  /\ nops' = nops + 1
  /\ op' = [op EXCEPT ![p] = [kind |-> kind, path |-> name, name |-> name,
                              folder |-> <<>>]]
  /\ ret' = [ret EXCEPT ![p] = r]
  /\ gh' = [gh EXCEPT ![p] = Called(p, "lookup")]
  /\ pc' = [pc EXCEPT ![p] = "done"]
  /\ lc' = [lc EXCEPT ![p] = NoLocals]
  /\ UNCHANGED <<vol, extSlots, devNode, mntDir, mounted, okMounts, okUnmounts,
                 par>>

\* Get(name): getEBSVolume, then the property map with what Path returns.
Get(p, name) ==
  /\ CanDispatch(p)
  /\ \E apiOk \in BOOLEAN :
       LET err == getEBSVolumeErr(name, apiOk) IN
         ReadOnly(p, "Get", name,
                  IF err # Nil THEN [val |-> Nil, err |-> err]
                  ELSE [val |-> Properties(name), err |-> Nil])

\* List(): DescribeVolumes by tag key, then a property map per volume.
List(p) ==
  /\ CanDispatch(p)
  /\ \E apiOk \in BOOLEAN :
       IF ~apiOk
       THEN ReadOnly(p, "List", Nil,
                     [val |-> Nil, err |-> ApiErr("DescribeVolumes")])
       ELSE \E s \in Listings :
              ReadOnly(p, "List", Nil,
                       [val |-> [i \in DOMAIN s |-> Properties(s[i])],
                        err |-> Nil])

(* ------------------------------ Create -------------------------------- *)

\* d.ec2.CreateVolume
CreateVolume(p) ==
  /\ Quiet
  /\ pc[p] = "c_create"
  /\ \E apiOk \in BOOLEAN :
       IF apiOk
       THEN /\ vol' = [vol EXCEPT ![op[p].name] = FreshVolume]
            /\ Goto(p, "c_tag", lc[p], Called(p, "CreateVolume"))
       ELSE /\ UNCHANGED vol
            /\ Return(p, Nil, ApiErr("CreateVolume"), Called(p, "CreateVolume"))
  /\ UNCHANGED <<extSlots, devNode, mntDir, mounted, op, nops, par>>

\* d.ec2.CreateTags, its error ignored; then attachVolume is entered.
CreateTags(p) ==
  /\ Quiet
  /\ pc[p] = "c_tag"
  /\ \E apiOk \in BOOLEAN :
       vol' = [vol EXCEPT ![op[p].name].tagged = apiOk]
  /\ Goto(p, "a_lookup", NoLocals, Called(p, "CreateTags"))
  /\ UNCHANGED <<extSlots, devNode, mntDir, mounted, op, nops, par>>

\* mkfs -t ext4 device, then detachVolume whatever the outcome.
Mkfs(p) ==
  /\ Quiet
  /\ pc[p] = "c_mkfs"
  /\ \E ok \in BOOLEAN :
       /\ ok => LstatOk(lc[p].dev[1], lc[p].dev[2])
       /\ IF ok
          THEN CallDetach(p, "create", Nil,
                          Called(p, "mkfs"))
          ELSE CallDetach(p, "create_failed", FormatFailed,
                          Called(p, "mkfs"))
  /\ UNCHANGED <<vol, extSlots, devNode, mntDir, mounted, op, nops, par>>

(* ------------------------------ doMount ------------------------------- *)

\* os.MkdirAll(mnt): nothing to do, and no error, for a directory that
\* exists.
MkdirAll(p) ==
  /\ Quiet
  /\ pc[p] = "m_mkdir"
  /\ \E ok \in BOOLEAN :
       /\ mntDir[op[p].name] => ok
       /\ IF ok
          THEN /\ mntDir' = [mntDir EXCEPT ![op[p].name] = TRUE]
               /\ Goto(p, "m_stat", lc[p], gh[p])
          ELSE /\ UNCHANGED mntDir
               /\ Return(p, Nil, <<"mkdir failed">>, gh[p])
  /\ UNCHANGED <<vol, extSlots, devNode, mounted, op, nops, par>>

\* os.Stat(mnt) and IsDir
StatMnt(p) ==
  /\ Quiet
  /\ pc[p] = "m_stat"
  /\ IF StatIsDir(op[p].name, <<>>)
     THEN Goto(p, "m_check", lc[p], gh[p])
     ELSE Return(p, Nil, <<"Mountpoint is not a directory">>, gh[p])
  /\ UNCHANGED <<vol, extSlots, devNode, mntDir, mounted, op, nops, par>>

\* mountpoint -q mnt: a live mount point is returned as it is; otherwise
\* attachVolume is entered.
MountpointCheck(p) ==
  /\ Quiet
  /\ pc[p] = "m_check"
  /\ IF IsMountpoint(op[p].name)
     THEN MountReturn(p, MountDir(op[p].name), [gh[p] EXCEPT !.short = TRUE])
     ELSE Goto(p, "a_lookup", NoLocals, gh[p])
  /\ UNCHANGED <<vol, extSlots, devNode, mntDir, mounted, op, nops, par>>

\* mount dev mnt; on failure detachVolume, its error ignored.
MountCmd(p) ==
  /\ Quiet
  /\ pc[p] = "m_mount"
  /\ \E ok \in BOOLEAN :
       /\ ok => /\ LstatOk(lc[p].dev[1], lc[p].dev[2])
                /\ mntDir[op[p].name]
                /\ mounted[op[p].name] = 0
       /\ IF ok
          THEN /\ mounted' = [mounted EXCEPT ![op[p].name] = lc[p].dev[2]]
               /\ MountReturn(p, MountDir(op[p].name), Called(p, "mount"))
          ELSE /\ UNCHANGED mounted
               /\ CallDetach(p, "mount_failed", MountFailed,
                             Called(p, "mount"))
  /\ UNCHANGED <<vol, extSlots, devNode, mntDir, op, nops, par>>


(* ---------------------------- attachVolume ---------------------------- *)

\* A match that reads the first slot whatever the device name.
DeviceSlot_First(v) == 1

\* The regexp /dev/(xv|s)d([f-p]) on the attachment's device: the slot of
\* its letter, or 0 when it does not match.
DeviceSlot(v) ==
  IF v.dev # <<>> /\ v.dev[1] \in Aliases /\ v.dev[2] \in Slots
  THEN v.dev[2] ELSE 0

\* getEBSVolume, and the return of the device of a volume already attached.
AttachLookup(p) ==
  /\ Quiet
  /\ pc[p] = "a_lookup"
  /\ \E apiOk \in BOOLEAN :
       LET name == op[p].name
           err == getEBSVolumeErr(name, apiOk)
           v == vol[name]
           g == Called(p, "lookup")
           s == DeviceSlot(v)
       IN IF err # Nil THEN AfterAttach(p, Nil, err, g)
          ELSE IF NumAttachments(v) = 1 /\ v.att = "attached"
          THEN IF s = 0
               THEN AfterAttach(p, Nil, <<"Unable to find mount device">>, g)
               ELSE IF LstatOk("sd", s)
               THEN AfterAttach(p, <<"sd", s>>, Nil, g)
               ELSE IF LstatOk("xvd", s)
               THEN AfterAttach(p, <<"xvd", s>>, Nil, g)
               ELSE CallWait(p, "available", g)
          ELSE CallWait(p, "available", g)
  /\ UNCHANGED <<vol, extSlots, devNode, mntDir, mounted, op, nops, par>>

\* A scan that looks at the primary alias only.
SlotOccupied_PrimaryOnly(c) == LstatOk("sd", c)

\* Either alias of slot c exists: the slot is skipped.
SlotOccupied(c) == LstatOk("sd", c) \/ LstatOk("xvd", c)

\* A scan that steps over every other slot.
NextSlot_Skipping(c) == c + 2

\* The scan's order: the slot after c.
NextSlot(c) == c + 1

\* The device name the attach request carries for slot c: "/dev/sd" + c.
RequestDevice(c) == <<"sd", c>>

\* One turn of the loop over "fghijklmnop" up to the attach request: the
\* two Lstat calls, or the loop's end.
ScanSlot(p) ==
  /\ Quiet
  /\ pc[p] = "a_scan"
  /\ LET c == lc[p].c IN
       IF c \notin Slots
       THEN AfterAttach(p, Nil, DeviceExhausted, gh[p])
       ELSE IF SlotOccupied(c)
       THEN Goto(p, "a_scan", [lc[p] EXCEPT !.c = NextSlot(c)],
                 [gh[p] EXCEPT !.skipped = @ \cup {c}])
       ELSE Goto(p, "a_request", lc[p], gh[p])
  /\ UNCHANGED <<vol, extSlots, devNode, mntDir, mounted, op, nops, par>>

\* A scan that takes every error of the provider for a slot in use.
AttachFailed_Continue(p, g) ==
  Goto(p, "a_scan", [lc[p] EXCEPT !.c = NextSlot(lc[p].c)], g)

\* AttachVolume returned an error other than InvalidParameterValue: it is
\* returned.
AttachFailed(p, g) == AfterAttach(p, Nil, ApiErr("AttachVolume"), g)

\* d.ec2.AttachVolume for the scan's slot.  The provider accepts it for an
\* available volume and a device name not in use on the instance, reports
\* InvalidParameterValue for a device name in use, and any other error
\* otherwise or at will.
AttachRequest(p) ==
  /\ Quiet
  /\ pc[p] = "a_request"
  /\ LET c == lc[p].c
         name == op[p].name
         v == vol[name]
         g == Called(p, "AttachVolume")
     IN \/ /\ v.exists /\ v.state = "available" /\ ~ProviderInUse(c)
           /\ vol' = [vol EXCEPT ![name] =
                        [v EXCEPT !.state = "in-use", !.att = "attaching",
                                  !.dev = RequestDevice(c)]]
           /\ CallWait(p, "attached", [g EXCEPT !.accepted = c])
        \/ /\ v.exists /\ ProviderInUse(c)
           /\ UNCHANGED vol
           /\ Goto(p, "a_scan", [lc[p] EXCEPT !.c = NextSlot(c)],
                   [g EXCEPT !.rejected = @ \cup {c}])
        \/ /\ UNCHANGED vol
           /\ AttachFailed(p, g)
  /\ UNCHANGED <<extSlots, devNode, mntDir, mounted, op, nops, par>>

\* An attach that returns the primary path without looking for it.
AttachResolve_PrimaryOnly(p) ==
  /\ Quiet
  /\ pc[p] = "a_post"
  /\ AfterAttach(p, <<"sd", lc[p].c>>, Nil, gh[p])
  /\ UNCHANGED <<vol, extSlots, devNode, mntDir, mounted, op, nops, par>>

\* After waitUntilAttached: the alias that exists is returned; with neither,
\* detachVolume and the error.
AttachResolve(p) ==
  /\ Quiet
  /\ pc[p] = "a_post"
  /\ LET c == lc[p].c IN
       IF LstatOk("sd", c) THEN AfterAttach(p, <<"sd", c>>, Nil, gh[p])
       ELSE IF LstatOk("xvd", c) THEN AfterAttach(p, <<"xvd", c>>, Nil, gh[p])
       ELSE CallDetach(p, "missing", DeviceMissing, gh[p])
  /\ UNCHANGED <<vol, extSlots, devNode, mntDir, mounted, op, nops, par>>

(* ---------------------------- waitUntilState -------------------------- *)

\* A loop that gives up one attempt late.
LastTry_Late == MaxTries + 1

\* The attempt at which a failing check is returned.
LastTry == MaxTries

\* waitUntilState returns err after l.tries attempts.
WaitReturn(p, l, err) ==
  AfterWait(p, err,
            [Called(p, "lookup") EXCEPT
               !.wres = err,
               !.wgap = <<l.tries - l.evals, l.tries - l.sleeps>>])

\* What an attempt whose check failed goes on to do: return the failure at
\* the last attempt, else sleep and loop.
CheckFailed(p, l, reason) ==
  IF l.tries = LastTry
  THEN WaitReturn(p, l, reason)
  ELSE Goto(p, "w_poll", [l EXCEPT !.sleeps = @ + 1], Called(p, "lookup"))

\* A loop that takes a failed lookup for a failed check: it sleeps and looks
\* again.
LookupFailed_Retry(p, l, err) == CheckFailed(p, l, err)

\* What an attempt whose lookup failed goes on to do: return the error.
LookupFailed(p, l, err) == WaitReturn(p, l, err)

\* One turn of the loop: tries++, getEBSVolume, check, and the sleep.
PollAttempt(p) ==
  /\ Quiet
  /\ pc[p] = "w_poll"
  /\ \E apiOk \in BOOLEAN :
       LET name == op[p].name
           err == getEBSVolumeErr(name, apiOk)
           l == [lc[p] EXCEPT !.tries = @ + 1]
           le == [l EXCEPT !.evals = @ + 1]
           reason == Check(l.cond, vol[name])
       IN IF err # Nil THEN LookupFailed(p, l, err)
          ELSE IF reason = Nil THEN WaitReturn(p, le, Nil)
          ELSE CheckFailed(p, le, reason)
  /\ UNCHANGED <<vol, extSlots, devNode, mntDir, mounted, op, nops, par>>

(* ---------------------------- detachVolume ---------------------------- *)

DetachLookup(p) ==
  /\ Quiet
  /\ pc[p] = "d_lookup"
  /\ \E apiOk \in BOOLEAN :
       LET err == getEBSVolumeErr(op[p].name, apiOk) IN
         IF err # Nil THEN AfterDetach(p, err, Called(p, "lookup"))
         ELSE Goto(p, "d_request", lc[p], Called(p, "lookup"))
  /\ UNCHANGED <<vol, extSlots, devNode, mntDir, mounted, op, nops, par>>

\* d.ec2.DetachVolume: the provider starts detaching an attached volume, and
\* reports an error for a volume with no attachment, or at will.
DetachRequest(p) ==
  /\ Quiet
  /\ pc[p] = "d_request"
  /\ LET name == op[p].name
         g == Called(p, "DetachVolume")
     IN \/ /\ vol[name].exists /\ vol[name].att # "none"
           /\ vol' = [vol EXCEPT ![name].att = "detaching"]
           /\ CallWait(p, "detached", g)
        \/ /\ UNCHANGED vol
           /\ AfterDetach(p, ApiErr("DetachVolume"), g)
  /\ UNCHANGED <<extSlots, devNode, mntDir, mounted, op, nops, par>>

(* ----------------------------- doUnmount ------------------------------ *)

\* umount mnt
UmountCmd(p) ==
  /\ Quiet
  /\ pc[p] = "u_umount"
  /\ \E ok \in BOOLEAN :
       /\ ok => mounted[op[p].name] # 0
       /\ IF ok
          THEN /\ mounted' = [mounted EXCEPT ![op[p].name] = 0]
               /\ Goto(p, "u_remove", lc[p], Called(p, "umount"))
          ELSE /\ UNCHANGED mounted
               /\ Return(p, Nil, UnmountFailed, Called(p, "umount"))
  /\ UNCHANGED <<vol, extSlots, devNode, mntDir, op, nops, par>>

\* An unmount that leaves the mount directory in place.
RemoveDir_KeepDir(p) ==
  /\ Quiet
  /\ pc[p] = "u_remove"
  /\ CallDetach(p, "unmount", Nil, Called(p, "rmdir"))
  /\ UNCHANGED <<vol, extSlots, devNode, mntDir, mounted, op, nops, par>>

\* An unmount that ends after os.Remove(mnt), leaving the volume attached.
RemoveDir_NoDetach(p) ==
  /\ Quiet
  /\ pc[p] = "u_remove"
  /\ IF mntDir[op[p].name] /\ mounted[op[p].name] = 0
     THEN /\ mntDir' = [mntDir EXCEPT ![op[p].name] = FALSE]
          /\ Return(p, Nil, Nil, Called(p, "rmdir"))
     ELSE /\ UNCHANGED mntDir
          /\ Return(p, Nil, <<"remove failed">>, Called(p, "rmdir"))
  /\ UNCHANGED <<vol, extSlots, devNode, mounted, op, nops, par>>

\* os.Remove(mnt), then detachVolume.
RemoveDir(p) ==
  /\ Quiet
  /\ pc[p] = "u_remove"
  /\ IF mntDir[op[p].name] /\ mounted[op[p].name] = 0
     THEN /\ mntDir' = [mntDir EXCEPT ![op[p].name] = FALSE]
          /\ CallDetach(p, "unmount", Nil, Called(p, "rmdir"))
     ELSE /\ UNCHANGED mntDir
          /\ Return(p, Nil, <<"remove failed">>, Called(p, "rmdir"))
  /\ UNCHANGED <<vol, extSlots, devNode, mounted, op, nops, par>>

(* ------------------------- the environment ---------------------------- *)

UNCHANGED_PROCS ==
  UNCHANGED <<pc, op, lc, gh, ret, okMounts, okUnmounts, nops, par>>

\* The provider finishes creating a volume.
VolumeReady(n) ==
  /\ Quiet
  /\ vol[n].exists /\ vol[n].state = "creating"
  /\ vol' = [vol EXCEPT ![n].state = "available"]
  /\ UNCHANGED <<extSlots, devNode, mntDir, mounted>>
  /\ UNCHANGED_PROCS

\* The provider finishes an attachment.
AttachComplete(n) ==
  /\ Quiet
  /\ vol[n].att = "attaching"
  /\ vol' = [vol EXCEPT ![n].att = "attached"]
  /\ UNCHANGED <<extSlots, devNode, mntDir, mounted>>
  /\ UNCHANGED_PROCS

\* The kernel makes the device node of an attachment, under either scheme.
DeviceAppear(n, alias) ==
  /\ Quiet
  /\ vol[n].att \in {"attaching", "attached"}
  /\ devNode[vol[n].dev[2]] = {}
  /\ devNode' = [devNode EXCEPT ![vol[n].dev[2]] = {alias}]
  /\ UNCHANGED <<vol, extSlots, mntDir, mounted>>
  /\ UNCHANGED_PROCS

\* The provider finishes a detach: the attachment and its device node go.
DetachComplete(n) ==
  /\ Quiet
  /\ vol[n].att = "detaching"
  /\ vol' = [vol EXCEPT ![n] = [@ EXCEPT !.att = "none", !.dev = <<>>,
                                          !.state = "available"]]
  /\ devNode' = [devNode EXCEPT ![vol[n].dev[2]] = {}]
  /\ UNCHANGED <<extSlots, mntDir, mounted>>
  /\ UNCHANGED_PROCS

\* Someone deletes an unattached volume at the provider while a call waits
\* on it (a volume deleted between calls is a name without a volume).
ExternalDelete(n) ==
  /\ Quiet
  /\ vol[n].exists /\ vol[n].state = "available" /\ vol[n].att = "none"
  /\ \E p \in Procs : pc[p] = "w_poll" /\ op[p].name = n
  /\ vol' = [vol EXCEPT ![n] = NoVolume]
  /\ UNCHANGED <<extSlots, devNode, mntDir, mounted>>
  /\ UNCHANGED_PROCS

(* ---------------------------- the adapter ----------------------------- *)

\* The adapter encodes what the call returned into the response, and the
\* goroutine is free again.  Nothing else reads what the call returned, so
\* the response is taken to be written as soon as the call returns: every
\* other step waits for it (Quiet).
Respond(p) ==
  /\ pc[p] = "done"
  /\ pc' = [pc EXCEPT ![p] = "idle"]
  /\ op' = [op EXCEPT ![p] = NoOp]
  /\ gh' = [gh EXCEPT ![p] = NoHistory]
  /\ ret' = [ret EXCEPT ![p] = NoRet]
  /\ UNCHANGED <<vol, extSlots, devNode, mntDir, mounted, lc, okMounts,
                 okUnmounts, nops, par>>

(* --------------------------- specification ---------------------------- *)

InitWith(configs, n) ==
  /\ vol = [v \in Names |-> IF v = <<"a">> THEN AvailableVolume ELSE NoVolume]
  /\ devNode \in configs
  /\ extSlots = {c \in Slots : devNode[c] # {}}
  /\ mntDir = [v \in Names |-> FALSE]
  /\ mounted = [v \in Names |-> 0]
  /\ pc = [p \in Procs |-> "idle"]
  /\ op = [p \in Procs |-> NoOp]
  /\ lc = [p \in Procs |-> NoLocals]
  /\ gh = [p \in Procs |-> NoHistory]
  /\ ret = [p \in Procs |-> NoRet]
  /\ okMounts = {}
  /\ okUnmounts = {}
  /\ nops = 0
  /\ par = n

\* Two requests at a time, on a host with two foreign devices.
Init == InitWith({TwoForeign}, 2)

\* One request at a time, on any of the hosts.
InitSeq == InitWith(HostConfigs, 1)

Next ==
  \/ \E p \in Procs, n \in Names : Create(p, n)
  \/ \E p \in Procs, path \in Requests(par) : Mount(p, path)
  \/ \E p \in Procs, path \in Requests(par) : Unmount(p, path)
  \/ \E p \in Procs, path \in Requests(par) : Remove(p, path)
  \/ \E p \in Procs, path \in Requests(par) : Path(p, path)
  \/ \E p \in Procs, n \in Names : Get(p, n)
  \/ \E p \in Procs : List(p)
  \/ \E p \in Procs : CreateVolume(p)
  \/ \E p \in Procs : CreateTags(p)
  \/ \E p \in Procs : Mkfs(p)
  \/ \E p \in Procs : MkdirAll(p)
  \/ \E p \in Procs : StatMnt(p)
  \/ \E p \in Procs : MountpointCheck(p)
  \/ \E p \in Procs : MountCmd(p)
  \/ \E p \in Procs : AttachLookup(p)
  \/ \E p \in Procs : ScanSlot(p)
  \/ \E p \in Procs : AttachRequest(p)
  \/ \E p \in Procs : AttachResolve(p)
  \/ \E p \in Procs : PollAttempt(p)
  \/ \E p \in Procs : DetachLookup(p)
  \/ \E p \in Procs : DetachRequest(p)
  \/ \E p \in Procs : UmountCmd(p)
  \/ \E p \in Procs : RemoveDir(p)
  \/ \E n \in Names : VolumeReady(n)
  \/ \E n \in Names : AttachComplete(n)
  \/ \E n \in Names, alias \in Aliases : DeviceAppear(n, alias)
  \/ \E n \in Names : DetachComplete(n)
  \/ \E n \in Names : ExternalDelete(n)
  \/ \E p \in Procs : Respond(p)

Spec == Init /\ [][Next]_vars

SpecSeq == InitSeq /\ [][Next]_vars

(* ------------------------------ properties ---------------------------- *)

\* Goroutine p is in attachVolume's scan: choosing a slot, asking the
\* provider for it, or waiting for the attachment it was granted.
InScan(p) ==
  \/ pc[p] \in {"a_scan", "a_request"}
  \/ pc[p] = "w_poll" /\ lc[p].cond = "attached"

\* Goroutine p serves a lifecycle call on volume name n.
InLifecycle(p, n) ==
  /\ Busy(p)
  /\ op[p].kind \in {"Create", "Mount", "Unmount", "Remove"}
  /\ op[p].name = n

\* C1: at most one attach operation is inside the slot scan and attach
\* request at any moment, whichever volumes the operations are for.
C1_ScanExclusive ==
  \A p, q \in Procs : (InScan(p) /\ InScan(q)) => p = q

\* C2: of the lifecycle calls (Create, Mount, Unmount, Remove) on one volume
\* name, at most one is in progress at any moment.
C2_OneCallPerName ==
  \A p, q \in Procs :
    \A n \in Names : (InLifecycle(p, n) /\ InLifecycle(q, n)) => p = q

\* C3: when Create returns after its format step, whether formatting
\* succeeded or failed, the volume has no attachment and is available.
C3_CreateLeavesAvailable ==
  \A p \in Procs :
    (pc[p] = "done" /\ op[p].kind = "Create" /\ "mkfs" \in gh[p].calls)
      => /\ vol[op[p].name].att = "none"
         /\ vol[op[p].name].state = "available"

\* C4: with no call in progress, the mount directory of a volume exists
\* exactly when the volume is mounted on it.
C4_DirIffMounted ==
  (\A p \in Procs : pc[p] = "idle")
    => \A n \in Names : mntDir[n] <=> mounted[n] # 0

\* Goroutine p takes a step of a Mount call whose mount directory is live.
ShortCircuit(p) ==
  /\ op[p].kind = "Mount"
  /\ pc[p] = "m_check"
  /\ pc'[p] # pc[p]
  /\ mounted[op[p].name] # 0

\* C5: a Mount of a volume that is mounted at its mount directory returns
\* the mountpoint of that path, the one an earlier Mount of the path
\* returned, with no provider lookup, no wait, no attach and no mount command,
\* and changes neither the attachment nor the mount.
C5_MountIdempotent ==
  [][\A p \in Procs :
       /\ ShortCircuit(p) =>
            /\ pc'[p] = "done"
            /\ ret'[p] = [val |-> MountRoot \o op[p].name \o op[p].folder,
                          err |-> Nil]
            /\ \A m \in okMounts : m[1] = op[p].path => m[2] = ret'[p].val
            /\ gh'[p].calls = {}
            /\ UNCHANGED <<vol, extSlots, devNode, mntDir, mounted>>
       /\ (op[p].kind = "Mount" /\ pc[p] \in {"m_mkdir", "m_stat"}
            /\ pc'[p] # pc[p] /\ mounted[op[p].name] # 0)
            => /\ pc'[p] = (IF pc[p] = "m_mkdir" THEN "m_stat" ELSE "m_check")
               /\ gh'[p].calls = {}
               /\ UNCHANGED <<vol, extSlots, devNode, mntDir, mounted>>
    ]_vars

\* A Mount of a path with a sub-path, mounted by an earlier Mount of the
\* same path, has returned from the mount point check.
C5_Witness ==
  \E p \in Procs :
    /\ pc[p] = "done" /\ op[p].kind = "Mount" /\ gh[p].short
    /\ op[p].folder # <<>>
    /\ ret[p].err = Nil
    /\ <<op[p].path, ret[p].val>> \in okMounts
    /\ nops >= 2

\* C6: the scan tries the slots in the order f..p; it asks the provider for
\* a slot only when neither alias of the slot exists and every slot before
\* it was tried in this call, and it names the slot's primary alias; so with
\* f and g found occupied and h found free the first request is for h.
C6_ScanOrder ==
  [][\A p \in Procs :
       LET c == lc[p].c
           tried == gh[p].skipped \cup gh[p].rejected
       IN /\ (pc[p] = "a_scan" /\ pc'[p] = "a_request")
               => /\ c \in Slots
                  /\ ~LstatOk("sd", c) /\ ~LstatOk("xvd", c)
                  /\ tried = 1 .. (c - 1)
                  /\ lc'[p].c = c
          /\ (pc[p] = "a_scan" /\ pc'[p] = "a_scan" /\ lc'[p] # lc[p])
               => /\ LstatOk("sd", c) \/ LstatOk("xvd", c)
                  /\ lc'[p].c = c + 1
                  /\ gh'[p].skipped \cup gh'[p].rejected = 1 .. c
          /\ (pc[p] = "a_request" /\ pc'[p] = "a_scan")
               => /\ lc'[p].c = c + 1
                  /\ gh'[p].skipped \cup gh'[p].rejected = 1 .. c
          /\ (pc[p] = "a_request" /\ pc'[p] = "w_poll")
               => /\ vol'[op[p].name].dev = <<"sd", c>>
                  /\ vol'[op[p].name].att = "attaching"
                  /\ gh'[p].accepted = c
    ]_vars

\* With f held under one alias and g under the other, a call skipped both
\* and the provider accepted its first request, for h.
C6_Witness ==
  \E p \in Procs :
    /\ pc[p] = "w_poll" /\ lc[p].cond = "attached"
    /\ LstatOk("sd", 1) /\ LstatOk("xvd", 2)
    /\ gh[p].skipped = {1, 2} /\ gh[p].rejected = {}
    /\ gh[p].accepted = 3
    /\ vol[op[p].name].dev = <<"sd", 3>>

\* C7 as stated: a call that returns DeviceExhausted issued no attach
\* request.
C7_NoRequestIssued ==
  \A p \in Procs :
    (pc[p] = "done" /\ ret[p].err = DeviceExhausted)
      => "AttachVolume" \notin gh[p].calls

\* C7: a call whose attach returns DeviceExhausted tried all 11 slots; the
\* provider accepted no attach request of the call, each slot was found
\* occupied locally or was refused by the provider as in use, and no request
\* was issued when every slot was occupied locally.
C7_ExhaustedNoneAccepted ==
  \A p \in Procs :
    (pc[p] = "done" /\ ret[p].err = DeviceExhausted)
      => /\ gh[p].accepted = 0
         /\ gh[p].skipped \cup gh[p].rejected = Slots
         /\ gh[p].skipped \cap gh[p].rejected = {}
         /\ ("AttachVolume" \in gh[p].calls) <=> (gh[p].rejected # {})

\* A call returned DeviceExhausted with every slot occupied locally.
C7_Witness ==
  \E p \in Procs :
    /\ pc[p] = "done" /\ ret[p].err = DeviceExhausted
    /\ gh[p].skipped = Slots
    /\ \A c \in Slots : devNode[c] # {}

\* Goroutine p makes an attempt of waitUntilState.
Attempt(p) == pc[p] = "w_poll" /\ (pc'[p] # "w_poll" \/ lc'[p] # lc[p])

\* C8: the poller evaluates its condition at most 12 times, sleeping once
\* after each evaluation but the last; it returns success at the first
\* evaluation that is satisfied, and after the 12th failing one the reason
\* that evaluation gave.
C8_PollerBound ==
  [][\A p \in Procs :
       Attempt(p) =>
         LET k == lc[p].tries + 1
             v == vol[op[p].name]
             reason == Check(lc[p].cond, v)
         IN /\ k <= MaxTries
            /\ lc[p].evals = lc[p].tries /\ lc[p].sleeps = lc[p].tries
            /\ IF pc'[p] = "w_poll"
               THEN /\ k < MaxTries
                    /\ reason # Nil
                    /\ lc'[p].tries = k /\ lc'[p].evals = k
                    /\ lc'[p].sleeps = k
                    /\ lc'[p].cond = lc[p].cond
               ELSE /\ gh'[p].wgap[2] = 1
                    /\ gh'[p].wres = Nil
                         => /\ v.exists /\ v.tagged /\ reason = Nil
                            /\ gh'[p].wgap[1] = 0
                    /\ (gh'[p].wgap[1] = 0 /\ reason = Nil)
                         => gh'[p].wres = Nil
                    /\ (gh'[p].wgap[1] = 0 /\ reason # Nil)
                         => /\ k = MaxTries
                            /\ gh'[p].wres = reason
    ]_vars

\* A wait for the attachment gave up: its 12th evaluation failed, and the
\* call returned that evaluation's reason.
C8_Witness ==
  \E p \in Procs :
    /\ pc[p] = "done"
    /\ gh[p].wres = <<"seeking", "attached", "current is", "attaching">>
    /\ gh[p].wgap = <<0, 1>>
    /\ ret[p].err = gh[p].wres

\* C9: every attempt of the poller looks the volume up anew; an attempt
\* whose lookup fails returns that error at once, without evaluating the
\* condition and without sleeping, however many attempts came before.
C9_LookupFailureReturns ==
  [][\A p \in Procs :
       Attempt(p) =>
         LET v == vol[op[p].name]
             found == v.exists /\ v.tagged
         IN /\ "lookup" \in gh'[p].calls
            /\ ~found
                 => /\ pc'[p] # "w_poll"
                    /\ IsLookupErr(gh'[p].wres)
                    /\ gh'[p].wgap = <<1, 1>>
            /\ (pc'[p] # "w_poll" /\ gh'[p].wgap[1] = 1)
                 => /\ IsLookupErr(gh'[p].wres)
                    /\ gh'[p].wgap[2] = 1
                    /\ ~found => gh'[p].wres \in {NotFoundErr,
                                                  ApiErr("DescribeVolumes")}
            /\ (pc'[p] = "w_poll" \/ gh'[p].wgap[1] = 0) => found
    ]_vars

\* A wait under way lost its volume, and the call returned NotFound.
C9_Witness ==
  \E p \in Procs :
    /\ pc[p] = "done"
    /\ gh[p].wres = NotFoundErr
    /\ gh[p].wgap = <<1, 1>>
    /\ ret[p].err = NotFoundErr
    /\ ~vol[op[p].name].exists

\* C10: a Path call for a path p, made after a Mount of p returned a
\* mountpoint and before any Unmount or Remove of that volume began, returns
\* that mountpoint.
C10_PathAfterMount ==
  [][\A p \in Procs :
       (pc[p] = "idle" /\ pc'[p] = "done" /\ op'[p].kind = "Path")
         => \A m \in okMounts :
              m[1] = op'[p].path => ret'[p] = [val |-> m[2], err |-> Nil]
    ]_vars

\* Goroutine p serves an Unmount or a Remove.
Unmounting(p) == op[p].kind \in {"Unmount", "Remove"}

\* C11: Unmount and Remove run the OS unmount, the removal of the mount
\* directory and the detach (with its wait) in this order, each after the one
\* before succeeded; a failed unmount command ends the call with nothing
\* removed or detached and the volume as it was; the call returns no error
\* only after all three succeeded.
C11_UnmountInOrder ==
  [][\A p \in Procs :
       Unmounting(p) =>
         LET n == op[p].name IN
         /\ (pc[p] = "u_umount" /\ pc'[p] = "done")
              => /\ ret'[p].err = UnmountFailed
                 /\ gh'[p].calls = {"umount"}
                 /\ UNCHANGED <<vol, extSlots, devNode, mntDir, mounted>>
         /\ (pc[p] = "u_umount" /\ pc'[p] # pc[p])
              => /\ pc'[p] \in {"done", "u_remove"}
                 /\ pc'[p] = "u_remove" => mounted[n] # 0 /\ mounted'[n] = 0
                 /\ UNCHANGED <<vol, mntDir>>
         /\ (pc[p] = "u_remove" /\ pc'[p] # pc[p])
              => /\ gh[p].calls = {"umount"}
                 /\ pc'[p] \in {"done", "d_lookup"}
                 /\ pc'[p] = "d_lookup" => mntDir[n] /\ ~mntDir'[n]
                 /\ pc'[p] = "done" => ret'[p].err # Nil /\ mntDir'[n] = mntDir[n]
                 /\ UNCHANGED vol
         /\ (pc[p] = "d_request" /\ pc'[p] # pc[p])
              => {"umount", "rmdir"} \subseteq gh[p].calls
         /\ (pc[p] # "done" /\ pc'[p] = "done" /\ ret'[p].err = Nil)
              => /\ {"umount", "rmdir", "DetachVolume"} \subseteq gh'[p].calls
                 /\ gh'[p].det = "ok"
                 /\ gh'[p].wres = Nil
                 /\ NumAttachments(vol'[n]) = 0
                 /\ ~mntDir'[n] /\ mounted'[n] = 0
    ]_vars

\* An Unmount of a mounted volume returned no error.
C11_Witness ==
  \E p \in Procs :
    /\ pc[p] = "done" /\ op[p].kind = "Unmount" /\ ret[p].err = Nil
    /\ {"umount", "rmdir", "DetachVolume"} \subseteq gh[p].calls
    /\ vol[op[p].name].exists /\ vol[op[p].name].att = "none"

\* C12: a Mount of a name whose Unmount returned no error does not take the
\* already-mounted return; when it returns no error it has issued an attach
\* request the provider accepted and a mount command, the volume is mounted
\* on the device of that request, and it returns <mount-root>/<name> (with
\* the sub-path), as the first Mount did.
C12_RemountRoundTrip ==
  \A p \in Procs :
    (pc[p] = "done" /\ op[p].kind = "Mount" /\ gh[p].remount)
      => /\ ~gh[p].short
         /\ ret[p].err = Nil
              => /\ {"AttachVolume", "mount"} \subseteq gh[p].calls
                 /\ gh[p].accepted \in Slots
                 /\ mounted[op[p].name] = gh[p].accepted
                 /\ ret[p].val = MountRoot \o op[p].name \o op[p].folder

\* Mount, Unmount and Mount again of one name, each without error.
C12_Witness ==
  \E p \in Procs :
    /\ pc[p] = "done" /\ op[p].kind = "Mount" /\ gh[p].remount
    /\ op[p].folder = <<>>
    /\ ret[p] = [val |-> MountDir(op[p].name), err |-> Nil]
    /\ "AttachVolume" \in gh[p].calls

\* C13: an Unmount that returns no error leaves the volume without
\* attachment, and from then until a Mount of the name begins every Path of
\* the name, with or without sub-path, returns NotMounted.
C13_PathAfterUnmount ==
  [][\A p \in Procs :
       /\ (pc[p] # "done" /\ pc'[p] = "done" /\ Unmounting(p)
             /\ ret'[p].err = Nil)
            => /\ NumAttachments(vol'[op[p].name]) = 0
               /\ op[p].name \in okUnmounts'
       /\ (pc[p] = "idle" /\ pc'[p] = "done" /\ op'[p].kind = "Path"
             /\ op'[p].name \in okUnmounts)
            => ret'[p] = [val |-> Nil, err |-> NotMounted]
    ]_vars

\* Mount, Unmount and Path of one name: Path returned NotMounted.
C13_Witness ==
  \E p \in Procs :
    /\ pc[p] = "done" /\ op[p].kind = "Path"
    /\ op[p].name \in okUnmounts
    /\ ret[p].err = NotMounted
    /\ vol[op[p].name].exists /\ vol[op[p].name].att = "none"

\* C14: for a volume that is mounted, the property map Get returns, and
\* the volume's entry in what List returns, holds Mountpoint with the
\* volume's mount directory; List returns an error only when the provider's
\* listing failed.
C14_MountpointListed ==
  \A p \in Procs :
    /\ (pc[p] = "done" /\ op[p].kind = "Get" /\ ret[p].err = Nil
          /\ mounted[op[p].name] # 0)
         => <<"Mountpoint", MountDir(op[p].name)>> \in ret[p].val
    /\ (pc[p] = "done" /\ op[p].kind = "List")
         => /\ ret[p].err \in {Nil, ApiErr("DescribeVolumes")}
            /\ ret[p].err = Nil =>
                 \A i \in DOMAIN ret[p].val : \A n \in Names :
                   (<<"Name", n>> \in ret[p].val[i] /\ mounted[n] # 0)
                     => <<"Mountpoint", MountDir(n)>> \in ret[p].val[i]

\* Goroutine p is in the detachVolume that follows a failed format or mount
\* command.
Compensating(p) == lc[p].dctx \in {"create_failed", "mount_failed"}

\* C15: after an attach that succeeded, a failing format command in Create
\* and a failing mount command in Mount are followed by detachVolume, and
\* the call returns the command's failure whether detachVolume returned an
\* error or not.
C15_CommandErrorKept ==
  [][\A p \in Procs :
       /\ (pc[p] \in {"c_mkfs", "m_mount"} /\ pc'[p] # pc[p])
            => \/ pc'[p] = "done" /\ ret'[p].err = Nil
                    /\ op[p].kind = "Mount" /\ "mount" \in gh'[p].calls
               \/ /\ pc'[p] = "d_lookup"
                  /\ lc'[p].dctx =
                       (IF op[p].kind = "Mount" THEN "mount_failed"
                        ELSE lc'[p].dctx)
                  /\ lc'[p].dctx \in {"create", "create_failed",
                                       "mount_failed"}
       /\ (Compensating(p) /\ pc'[p] # pc[p])
            => /\ lc[p].perr = (IF op[p].kind = "Create" THEN FormatFailed
                                ELSE MountFailed)
               /\ IF pc'[p] = "done"
                  THEN /\ ret'[p].err = lc[p].perr
                       /\ gh'[p].det \in {"ok", "failed"}
                  ELSE /\ pc'[p] \in {"d_request", "w_poll"}
                       /\ lc'[p].dctx = lc[p].dctx
                       /\ lc'[p].perr = lc[p].perr
       /\ (pc[p] # "done" /\ pc'[p] = "done"
             /\ ret'[p].err \in {FormatFailed, MountFailed})
            => Compensating(p)
    ]_vars

\* A Mount returned the mount command's failure although the detach after
\* it failed as well.
C15_Witness ==
  \E p \in Procs :
    /\ pc[p] = "done" /\ op[p].kind = "Mount"
    /\ ret[p].err = MountFailed
    /\ gh[p].det = "failed"
    /\ gh[p].accepted \in Slots

\* Goroutine p leaves attachVolume's first lookup.
FirstLookup(p) == pc[p] = "a_lookup" /\ pc'[p] # pc[p]

\* The volume has exactly one attachment, to this host, in state attached.
AttachedHere(v) == v.exists /\ v.tagged /\ NumAttachments(v) = 1
                     /\ v.att = "attached"

\* attachVolume returns dev to its caller with no wait and no attach request.
ReturnsDevice(p, dev) ==
  /\ pc'[p] = (IF op[p].kind = "Create" THEN "c_mkfs" ELSE "m_mount")
  /\ lc'[p].dev = dev
  /\ gh'[p].calls = gh[p].calls \cup {"lookup"}
  /\ gh'[p].accepted = 0
  /\ UNCHANGED vol

\* The first lookup itself failed.
LookupError(p) == pc'[p] = "done" /\ IsLookupErr(ret'[p].err)

\* C16 as stated: for a volume attached to this host in state attached,
\* attach returns the device path of the attachment's slot with no wait and
\* no attach request.
C16_AttachedReturnsDevice ==
  [][\A p \in Procs :
       (FirstLookup(p) /\ AttachedHere(vol[op[p].name]))
         => \/ LookupError(p)
            \/ \E alias \in Aliases :
                 ReturnsDevice(p, <<alias, vol[op[p].name].dev[2]>>)
    ]_vars

\* C16: for a volume attached to this host in state attached, whose device
\* name is that of a slot f..p: when an alias of the slot exists locally,
\* attach returns it (the primary one first) with no wait and no attach
\* request; when neither exists, attach goes on to wait until the volume is
\* available.
C16_AttachedAliasReturned ==
  [][\A p \in Procs :
       LET v == vol[op[p].name]
           c == IF v.dev = <<>> THEN 0 ELSE v.dev[2]
       IN (FirstLookup(p) /\ AttachedHere(v) /\ c \in Slots)
            => \/ LookupError(p)
               \/ /\ LstatOk("sd", c)
                  /\ ReturnsDevice(p, <<"sd", c>>)
               \/ /\ ~LstatOk("sd", c) /\ LstatOk("xvd", c)
                  /\ ReturnsDevice(p, <<"xvd", c>>)
               \/ /\ ~LstatOk("sd", c) /\ ~LstatOk("xvd", c)
                  /\ pc'[p] = "w_poll" /\ lc'[p].cond = "available"
                  /\ lc'[p].tries = 0
    ]_vars

\* A Mount holds the device of a volume it found attached, and has issued
\* no attach request.
C16_Witness ==
  \E p \in Procs :
    /\ pc[p] = "m_mount"
    /\ gh[p].calls = {"lookup"} /\ gh[p].accepted = 0
    /\ AttachedHere(vol[op[p].name])
    /\ lc[p].dev[2] = vol[op[p].name].dev[2]
    /\ LstatOk(lc[p].dev[1], lc[p].dev[2])

\* Goroutine p gets the provider's answer to its attach request.
Requested(p) == pc[p] = "a_request" /\ pc'[p] # pc[p]

\* C17: an attach request refused because the device name is in use makes
\* attach take the slot as tried and go on with the next slot in order; a
\* request that fails otherwise makes attach return that error at once, with
\* no request accepted and none further issued in the call.
C17_RejectedContinues ==
  [][\A p \in Procs :
       Requested(p) =>
         LET c == lc[p].c IN
         \/ /\ pc'[p] = "w_poll"
            /\ gh'[p].accepted = c
         \/ /\ pc'[p] = "a_scan"
            /\ ProviderInUse(c)
            /\ lc'[p].c = c + 1
            /\ gh'[p].rejected = gh[p].rejected \cup {c}
            /\ gh'[p].skipped = gh[p].skipped
            /\ gh'[p].accepted = 0
            /\ UNCHANGED vol
         \/ /\ pc'[p] = "done"
            /\ ret'[p].err = ApiErr("AttachVolume")
            /\ gh'[p].rejected = gh[p].rejected
            /\ gh'[p].accepted = 0
            /\ UNCHANGED vol
    ]_vars

\* A call went on after a request refused for a device in use, and returned
\* the other error its next request met.
C17_Witness ==
  \E p \in Procs :
    /\ pc[p] = "done"
    /\ ret[p].err = ApiErr("AttachVolume")
    /\ gh[p].rejected # {}
    /\ gh[p].accepted = 0

Attaching(n) == vol[n].att \in {"attaching", "attached"}

\* Goroutine p holds the device path its attach call returned.
HoldsDevice(p) == pc[p] \in {"c_mkfs", "m_mount"} /\ lc[p].dev # Nil

AttachFailedAfterAccept(p) ==
  /\ pc[p] = "done" /\ op[p].kind \in {"Create", "Mount"}
  /\ ret[p].err # Nil
  /\ gh[p].accepted \in Slots
  /\ gh[p].calls \cap {"mkfs", "mount"} = {}

\* C20 as stated: an attach that returns an error after the provider
\* accepted its request has called for a detach before it returns.
C20_DetachBeforeError ==
  \A p \in Procs : AttachFailedAfterAccept(p) => gh[p].det # "none"

\* C20: an attach that returns an error after the provider accepted its
\* request either found the device missing, and has called detachVolume
\* before it returns (no attachment is left when that succeeded), or failed
\* in its wait for the attachment, and returns the wait's error with no
\* detach called for and no detach request issued.
C20_DetachOnlyWhenMissing ==
  \A p \in Procs :
    AttachFailedAfterAccept(p) =>
      \/ /\ ret[p].err = DeviceMissing
         /\ gh[p].det \in {"ok", "failed"}
         /\ gh[p].det = "ok" => NumAttachments(vol[op[p].name]) = 0
      \/ /\ ret[p].err # DeviceMissing
         /\ ret[p].err = gh[p].wres
         /\ gh[p].det = "none"
         /\ "DetachVolume" \notin gh[p].calls

\* A Mount returned the timeout of its wait for the attachment; no detach
\* was called for and the volume is still attaching.
C20_Witness ==
  \E p \in Procs :
    /\ AttachFailedAfterAccept(p)
    /\ op[p].kind = "Mount"
    /\ ret[p].err = <<"seeking", "attached", "current is", "attaching">>
    /\ gh[p].det = "none"
    /\ vol[op[p].name].att = "attaching"

=============================================================================
